---- MODULE Spec2Model ----
(***************************************************************************)
(* A model of flac_scanner.py: the interactive entry point, the recursive  *)
(* scan that files every folder under a resolution key, the resolution     *)
(* formatter and the report printer.                                       *)
(***************************************************************************)
EXTENDS Integers, Sequences, FiniteSets, TLC

\* Number of directories os.walk yields (the root and its descendants).
MaxDirs == 2

----------------------------------------------------------------------------
(* format_resolution: f"{khz:g}" applied to the double rate / 1000.0        *)

RECURSIVE Pow10(_)
Pow10(n) == IF n = 0 THEN 1 ELSE 10 * Pow10(n - 1)

RECURSIVE NumDigits(_)
NumDigits(n) == IF n < 10 THEN 1 ELSE 1 + NumDigits(n \div 10)

\* n written with exactly w decimal digits, zero padded on the left.
RECURSIVE DigitsStr(_, _)
DigitsStr(n, w) ==
    IF w = 0 THEN "" ELSE DigitsStr(n \div 10, w - 1) \o ToString(n % 10)

\* The w fractional digits n with the trailing zeros removed ('g' drops them).
RECURSIVE FracStr(_, _)
FracStr(n, w) ==
    IF w = 0 THEN ""
    ELSE IF n % 10 = 0 THEN FracStr(n \div 10, w - 1)
    ELSE DigitsStr(n, w)

\* floor(log2(rate / 1000)) for rate >= 1000: the binary exponent of khz.
RECURSIVE BinExp(_)
BinExp(rate) == IF rate < 2000 THEN 0 ELSE 1 + BinExp(rate \div 2)

RECURSIVE Pow2Mod125(_)
Pow2Mod125(k) == IF k = 0 THEN 1 ELSE (2 * Pow2Mod125(k - 1)) % 125

\* khz = rate / 1000.0 is the double nearest to rate/1000.  When the digits
\* dropped by 'g' are exactly one half of the last kept digit, the direction
\* is decided by that double: it is below the decimal value (round down),
\* above it (round up), or equal to it (round half to even).  The double's
\* position is the remainder of rate * 2^(49-e) modulo 125.
TieRoundsUp(rate, q) ==
    LET r == ((rate % 125) * Pow2Mod125(49 - BinExp(rate))) % 125
    IN  IF r = 0 THEN q % 2 = 1 ELSE r > 62

\* The six significant digits 'g' keeps (precision 6), as an integer in
\* 100000..1000000, for a rate of d decimal digits.
SixDigits(rate) ==
    LET d == NumDigits(rate)
    IN  IF d <= 6 THEN rate * Pow10(6 - d)
        ELSE LET k    == d - 6
                 q    == rate \div Pow10(k)
                 rem  == rate % Pow10(k)
                 half == 5 * Pow10(k - 1)
             IN  IF rem > half \/ (rem = half /\ TieRoundsUp(rate, q))
                 THEN q + 1 ELSE q

\* f"{khz:g}" with khz = rate / 1000.0
GFormat(rate) ==
    LET m0 == SixDigits(rate)
        \* decimal exponent of the rounded value
        X  == (NumDigits(rate) - 4) + (IF m0 = 1000000 THEN 1 ELSE 0)
        m  == IF m0 = 1000000 THEN 100000 ELSE m0
    IN  IF X >= 6
        THEN \* exponent notation: d.ddddde+XX
             LET fr == FracStr(m % 100000, 5)
             IN  ToString(m \div 100000)
                   \o (IF fr = "" THEN "" ELSE "." \o fr)
                   \o "e+" \o DigitsStr(X, 2)
        ELSE \* fixed notation with 5 - X fractional digits
             LET w  == 5 - X
                 fr == FracStr(m % Pow10(w), w)
             IN  ToString(m \div Pow10(w))
                   \o (IF fr = "" THEN "" ELSE "." \o fr)

format_resolution(bits, rate) ==
    ToString(bits) \o "-bit / " \o GFormat(rate) \o " kHz"

----------------------------------------------------------------------------
(* The file system the scan reads.                                          *)

\* Directories of the walked tree; directory d stands for the d-th path of
\* the tree in path order (1 is root_path itself).
Dirs == 1..MaxDirs

\* File names, as the sequence of their characters.
FileNames ==
    { <<"a", ".", "f", "l", "a", "c">>,
      <<"b", ".", "F", "L", "A", "C">>,
      <<"c", ".", "m", "p", "3">> }

\* (bits_per_sample, sample_rate) pairs found in the files of the tree.
Resolutions == { <<16, 96000>>, <<24, 44100>> }

\* What FLAC(file_path) finds in a file: stream info, or nothing it can parse
\* (the constructor raises).
Contents == {<<"corrupt">>} \cup {<<"flac", r[1], r[2]>> : r \in Resolutions}

\* The files of one directory: name -> content.  A directory is empty, or
\* holds c.mp3 (a 16-bit / 96 kHz FLAC stream under another extension) and
\* any of a.flac (corrupt or either resolution) and b.FLAC (corrupt or
\* 16-bit / 96 kHz).
Listings ==
    { l \in UNION {[S -> Contents] : S \in SUBSET FileNames} :
        /\ DOMAIN l # {} => \E n \in DOMAIN l : n[Len(n)] = "3"
        /\ \A n \in DOMAIN l :
              /\ n[Len(n)] = "3" => l[n] = <<"flac", 16, 96000>>
              /\ n[Len(n)] = "C" => l[n] # <<"flac", 24, 44100>> }

None == << >>

VARIABLES
    pc,                 \* the statement the program is at
    target_is_dir,      \* os.path.isdir(target_directory)
    tree,               \* directory -> listing
    pending,            \* directories os.walk has not yielded yet
    root,               \* the directory of the current iteration (0: none)
    flac_files,         \* qualifying files of root not read yet
    folder_resolutions, \* the set of line 49, in its iteration order
    library_report,     \* key -> list of directories
    f,                  \* the report file: "None", "open" or "closed"
    console,            \* lines printed to standard output
    report_file,        \* lines written to the report file
    exit_code,          \* -1 while running, then the process's exit status
    fmt_args,           \* arguments of a direct format_resolution call
    fmt_ret             \* its return value

vars == <<pc, target_is_dir, tree, pending, root, flac_files,
          folder_resolutions, library_report, f, console, report_file,
          exit_code, fmt_args, fmt_ret>>

scanVars == <<pending, root, flac_files, folder_resolutions, library_report>>
printVars == <<f, report_file>>
fmtVars == <<fmt_args, fmt_ret>>

----------------------------------------------------------------------------
(* Helpers of the scan.                                                     *)

\* str.lower(), character by character.
LowerChar(c) ==
    CASE c = "A" -> "a"
      [] c = "C" -> "c"
      [] c = "F" -> "f"
      [] c = "L" -> "l"
      [] OTHER   -> c

lower(s) == [i \in 1..Len(s) |-> LowerChar(s[i])]

endswith(s, suffix) ==
    /\ Len(s) >= Len(suffix)
    /\ SubSeq(s, Len(s) - Len(suffix) + 1, Len(s)) = suffix

IsFlacNameCaseSensitive(name) == endswith(name, <<".", "f", "l", "a", "c">>)

\* f.lower().endswith('.flac')
IsFlacName(name) == endswith(lower(name), <<".", "f", "l", "a", "c">>)

\* get_flac_resolution(os.path.join(root, name)): the pair, or None when
\* FLAC() raises.
get_flac_resolution(d, name) ==
    LET c == tree[d][name]
    IN  IF c[1] = "flac" THEN <<c[2], c[3]>> ELSE None

\* The truth value of `if res_data:` (None and the empty tuple are false).
Truthy(res_data) == Len(res_data) > 0

InSeq(x, s) == \E i \in 1..Len(s) : s[i] = x

AddResolutionDropping(fr, res_data) ==
    IF Truthy(res_data)
    THEN (IF InSeq(res_data, fr) THEN fr ELSE Append(fr, res_data))
    ELSE << >>

\* Lines 55-56: folder_resolutions.add(res_data) when res_data is true.  A set
\* keeps one copy of each element; its iteration order is modelled as the
\* order of insertion.
AddResolution(fr, res_data) ==
    IF Truthy(res_data)
    THEN (IF InSeq(res_data, fr) THEN fr ELSE Append(fr, res_data))
    ELSE fr

\* Python's order on tuples of two integers.
TupleLess(a, b) == a[1] < b[1] \/ (a[1] = b[1] /\ a[2] < b[2])

RateFirstLess(a, b) == a[2] < b[2] \/ (a[2] = b[2] /\ a[1] < b[1])

RECURSIVE SortBy(_, _)
SortBy(S, rateFirst) ==
    IF S = {} THEN << >>
    ELSE LET m == CHOOSE x \in S : \A y \in S \ {x} :
                      IF rateFirst THEN RateFirstLess(x, y) ELSE TupleLess(x, y)
         IN  <<m>> \o SortBy(S \ {m}, rateFirst)

Range(s) == {s[i] : i \in 1..Len(s)}

sortedByRate(fr) == SortBy(Range(fr), TRUE)

sortedNot(fr) == fr

\* sorted(folder_resolutions)
sorted(fr) == SortBy(Range(fr), FALSE)

RECURSIVE join(_, _)
join(sep, strs) ==
    IF Len(strs) = 0 THEN ""
    ELSE IF Len(strs) = 1 THEN strs[1]
    ELSE strs[1] \o sep \o join(sep, Tail(strs))

\* Lines 70-71.
mixed_key(fr) ==
    LET res_strings == [i \in 1..Len(fr) |->
                           format_resolution(sorted(fr)[i][1], sorted(fr)[i][2])]
    IN  "Mixed Resolutions (" \o join(", ", res_strings) \o ")"

ClassifyAlwaysMixed(fr) == mixed_key(fr)

\* Lines 62-72: the key a folder with the non-empty set fr is filed under.
Classify(fr) ==
    IF Len(fr) = 1
    THEN format_resolution(fr[1][1], fr[1][2])
    ELSE mixed_key(fr)

EmptyReport == [k \in {} |-> << >>]

\* defaultdict(list).__getitem__: a missing key is created with an empty list.
DictGetItem(report, key) ==
    IF key \in DOMAIN report THEN report ELSE report @@ (key :> << >>)

ReportAppendOverwrite(report, key, d) ==
    LET r == DictGetItem(report, key)
    IN  [r EXCEPT ![key] = <<d>>]

\* library_report[key].append(d)
ReportAppend(report, key, d) ==
    LET r == DictGetItem(report, key)
    IN  [r EXCEPT ![key] = Append(@, d)]

----------------------------------------------------------------------------
(* Helpers of print_report.                                                 *)

\* One output line: a text, or a table with one row per key.  The rows of a
\* table come out in the order sorted() gives the keys; a row holds the
\* integers printed for its key.
Line(text) == [text |-> text, rows |-> << >>]
Table(text, rows) == [text |-> text, rows |-> rows]

Rule == "------------------------------------------------------------"

\* log(message): print to the console and, when f is an open file, to it.
LogTo(sink, isOpen, lines) == IF isOpen THEN sink \o lines ELSE sink

RECURSIVE SortInts(_)
SortInts(S) ==
    IF S = {} THEN << >>
    ELSE LET m == CHOOSE x \in S : \A y \in S : x <= y
         IN  <<m>> \o SortInts(S \ {m})

\* sorted(report[resolution]); a list of distinct directories.
sorted_albums(albums) == SortInts(Range(albums))

ReportKeysAndMixed(report) == DOMAIN report \cup {"Mixed Resolutions"}

\* report.keys()
ReportKeys(report) == DOMAIN report

\* report[resolution] for every key the loops of lines 99 and 106 visit: the
\* mapping the lookups leave behind.
RECURSIVE LookupAll(_, _)
LookupAll(report, keys) ==
    IF keys = {} THEN report
    ELSE LET k == CHOOSE x \in keys : TRUE
         IN  LookupAll(DictGetItem(report, k), keys \ {k})

EchoLine == Line("Report successfully written to: /cwd/flac_report.txt")

----------------------------------------------------------------------------
(* The program.                                                             *)

Init ==
    /\ pc = "main"
    /\ target_is_dir \in BOOLEAN
    /\ tree \in [Dirs -> Listings]
    /\ target_is_dir = FALSE => \A d \in Dirs : DOMAIN tree[d] = {}
    /\ pending = {}
    /\ root = 0
    /\ flac_files = {}
    /\ folder_resolutions = << >>
    /\ library_report = EmptyReport
    /\ f = "None"
    /\ console = << >>
    /\ report_file = << >>
    /\ exit_code = -1
    /\ fmt_args = << >>
    /\ fmt_ret = ""

\* Lines 117-123: the prompt and the test of the path.  With a path that is
\* no directory the message is printed and the script runs off its end.
Main ==
    /\ pc = "main"
    /\ IF target_is_dir
       THEN /\ pc' = "scan"
            /\ UNCHANGED <<console, exit_code>>
       ELSE /\ console' = Append(console, Line("Invalid directory path provided."))
            /\ pc' = "exit"
            /\ exit_code' = 0
    /\ UNCHANGED <<target_is_dir, tree, scanVars, printVars, fmtVars>>

\* Lines 37-41: the empty report, the banner, and os.walk started.
ScanBegin ==
    /\ pc = "scan"
    /\ library_report' = EmptyReport
    /\ console' = Append(console, Line("Scanning directory: /music ..."))
    /\ pending' = Dirs
    /\ pc' = "walk"
    /\ UNCHANGED <<target_is_dir, tree, root, flac_files, folder_resolutions,
                   printVars, exit_code, fmtVars>>

\* Lines 41-49: os.walk yields the next directory; a directory without
\* qualifying files is passed over.  The order of the directories and of the
\* files in them is the operating system's: any order is taken here.
WalkNext ==
    /\ pc = "walk"
    /\ \E d \in pending :
         LET flacs == {n \in DOMAIN tree[d] : IsFlacName(n)}
         IN  /\ pending' = pending \ {d}
             /\ root' = d
             /\ flac_files' = flacs
             /\ folder_resolutions' = << >>
             /\ pc' = IF flacs = {} THEN "walk" ELSE "read"
    /\ UNCHANGED <<target_is_dir, tree, library_report, printVars, console,
                   exit_code, fmtVars>>

\* Lines 51-56: one file of the folder is read.
ReadFile ==
    /\ pc = "read"
    /\ \E n \in flac_files :
         /\ flac_files' = flac_files \ {n}
         /\ folder_resolutions' =
                AddResolution(folder_resolutions, get_flac_resolution(root, n))
    /\ UNCHANGED <<pc, target_is_dir, tree, pending, root, library_report,
                   printVars, console, exit_code, fmtVars>>

\* Lines 58-72: the folder is filed under its key, or passed over when no
\* file of it could be read.
FileFolder ==
    /\ pc = "read"
    /\ flac_files = {}
    /\ library_report' =
          IF Len(folder_resolutions) = 0 THEN library_report
          ELSE ReportAppend(library_report, Classify(folder_resolutions), root)
    /\ pc' = "walk"
    /\ UNCHANGED <<target_is_dir, tree, pending, root, flac_files,
                   folder_resolutions, printVars, console, exit_code, fmtVars>>

\* Lines 41, 74, 120-121: the walk is exhausted, the report is returned and
\* handed to print_report.
ScanReturn ==
    /\ pc = "walk"
    /\ pending = {}
    /\ pc' = "print_open"
    /\ UNCHANGED <<target_is_dir, tree, scanVars, printVars, console,
                   exit_code, fmtVars>>

\* Lines 77-82: the report file is opened, or the warning is printed.
PrintOpen ==
    /\ pc = "print_open"
    /\ \E opened \in BOOLEAN :
         IF opened
         THEN /\ f' = "open"
              /\ UNCHANGED console
         ELSE /\ f' = "None"
              /\ console' = Append(console,
                     Line("Warning: Could not open file for writing"))
    /\ pc' = "print_body"
    /\ UNCHANGED <<target_is_dir, tree, scanVars, report_file, exit_code,
                   fmtVars>>

\* Lines 89-92: an empty report.
PrintEmpty ==
    /\ pc = "print_body"
    /\ DOMAIN library_report = {}
    /\ LET lines == <<Line("No FLAC files found.")>>
       IN  /\ console' = console \o lines
           /\ report_file' = LogTo(report_file, f = "open", lines)
    /\ f' = IF f = "open" THEN "closed" ELSE f
    /\ pc' = "exit"
    /\ exit_code' = 0
    /\ UNCHANGED <<target_is_dir, tree, scanVars, fmtVars>>

\* Lines 94-109: the summary table and the detailed listing.
PrintBody ==
    /\ pc = "print_body"
    /\ DOMAIN library_report # {}
    /\ LET keys   == ReportKeys(library_report)
           report == LookupAll(library_report, keys)
           lines  ==
             << Line(Rule), Line("RESOLUTION | ALBUM COUNT"), Line(Rule),
                Table("albums", [k \in keys |-> <<Len(report[k])>>]),
                Line(Rule), Line("DETAILED LISTING:"),
                Table("===", [k \in keys |-> sorted_albums(report[k])]) >>
       IN  /\ library_report' = report
           /\ console' = console \o lines
           /\ report_file' = LogTo(report_file, f = "open", lines)
    /\ pc' = "print_close"
    /\ UNCHANGED <<target_is_dir, tree, pending, root, flac_files,
                   folder_resolutions, f, exit_code, fmtVars>>

\* Lines 111-113, then the end of the script.
PrintClose ==
    /\ pc = "print_close"
    /\ IF f = "open"
       THEN /\ f' = "closed"
            /\ console' = Append(console, EchoLine)
       ELSE UNCHANGED <<f, console>>
    /\ pc' = "exit"
    /\ exit_code' = 0
    /\ UNCHANGED <<target_is_dir, tree, scanVars, report_file, fmtVars>>

Next ==
    \/ Main
    \/ ScanBegin
    \/ WalkNext
    \/ ReadFile
    \/ FileFolder
    \/ ScanReturn
    \/ PrintOpen
    \/ PrintEmpty
    \/ PrintBody
    \/ PrintClose

Spec == Init /\ [][Next]_vars

----------------------------------------------------------------------------
(* format_resolution called on its own.                                     *)

FmtBits == {8, 16, 24, 32}

FmtRates ==
    { 1, 8000, 11025, 22050, 44100, 48000, 88200, 96000, 176400, 192000,
      352800, 384000, 655350, 999999, 1000001, 1048575, 1000000000 }

FmtInit ==
    /\ pc = "format_call"
    /\ fmt_args \in FmtBits \X FmtRates
    /\ fmt_ret = ""
    /\ target_is_dir = FALSE
    /\ tree = [d \in Dirs |-> << >>]
    /\ pending = {}
    /\ root = 0
    /\ flac_files = {}
    /\ folder_resolutions = << >>
    /\ library_report = EmptyReport
    /\ f = "None"
    /\ console = << >>
    /\ report_file = << >>
    /\ exit_code = -1

\* Lines 24-29.
FormatCall ==
    /\ pc = "format_call"
    /\ fmt_ret' = format_resolution(fmt_args[1], fmt_args[2])
    /\ pc' = "format_done"
    /\ UNCHANGED <<target_is_dir, tree, scanVars, printVars, console,
                   exit_code, fmt_args>>

FmtNext == FormatCall

SpecFormat == FmtInit /\ [][FmtNext]_vars

----------------------------------------------------------------------------
(* What the tree holds, read off the tree alone.                            *)

EndsInFlacAnyCase(n) ==
    /\ Len(n) >= 5
    /\ n[Len(n) - 4] = "."
    /\ n[Len(n) - 3] \in {"f", "F"}
    /\ n[Len(n) - 2] \in {"l", "L"}
    /\ n[Len(n) - 1] \in {"a", "A"}
    /\ n[Len(n)] \in {"c", "C"}

QualifyingFiles(d) == {n \in DOMAIN tree[d] : EndsInFlacAnyCase(n)}

ReadableFiles(d) == {n \in QualifyingFiles(d) : tree[d][n][1] = "flac"}

ReadableResolutions(d) ==
    {<<tree[d][n][2], tree[d][n][3]>> : n \in ReadableFiles(d)}

ReadableDirs == {d \in Dirs : ReadableResolutions(d) # {}}

FiledUnder(d) == {k \in DOMAIN library_report : InSeq(d, library_report[k])}

ScanReturned ==
    \/ pc \in {"print_open", "print_body", "print_close"}
    \/ pc = "exit" /\ target_is_dir

Occurrences(d, s) == Cardinality({i \in 1..Len(s) : s[i] = d})

RECURSIVE SumOver(_, _)
SumOver(fn, keys) ==
    IF keys = {} THEN 0
    ELSE LET k == CHOOSE x \in keys : TRUE
         IN  fn[k] + SumOver(fn, keys \ {k})

Perms(S) ==
    {s \in [1..Cardinality(S) -> S] :
        \A i, j \in 1..Cardinality(S) : i # j => s[i] # s[j]}

Ascending(s) ==
    \A i \in 1..(Len(s) - 1) :
        \/ s[i][1] < s[i + 1][1]
        \/ s[i][1] = s[i + 1][1] /\ s[i][2] < s[i + 1][2]

\* format_resolution of every resolution of the tree.
FormatOf == [r \in Resolutions |-> format_resolution(r[1], r[2])]

\* For every set of two or more resolutions: the mixed keys that list each
\* resolution once, in ascending order of the pair (bits, rate).
AscendingMixedKeys ==
    [S \in {T \in SUBSET Resolutions : Cardinality(T) >= 2} |->
        { "Mixed Resolutions ("
            \o join(", ", [i \in 1..Len(s) |-> FormatOf[s[i]]]) \o ")" :
          s \in {t \in Perms(S) : Ascending(t)} }]

R1 == <<16, 96000>>
R2 == <<24, 44100>>
NameA == <<"a", ".", "f", "l", "a", "c">>
NameB == <<"b", ".", "F", "L", "A", "C">>
NameC == <<"c", ".", "m", "p", "3">>
MixedKey12 == "Mixed Resolutions (16-bit / 96 kHz, 24-bit / 44.1 kHz)"

----------------------------------------------------------------------------
(* Claims.                                                                  *)

\* C1: once the scan has returned, a directory is in some key's folder list
\* if and only if it directly holds a file named *.flac (any case) that the
\* metadata reader could read.
C1_FiledIffReadable ==
    ScanReturned =>
        \A d \in Dirs : (FiledUnder(d) # {}) <=> (ReadableFiles(d) # {})

\* C1 witness: after the scan, a directory reached only through an upper-case
\* extension is filed, and one whose qualifying files are all corrupt (next to
\* a readable stream in a file without the extension) is not.
C1_Witness ==
    /\ pc = "exit"
    /\ target_is_dir
    /\ \E d, e \in Dirs :
         /\ DOMAIN tree[d] = {NameB, NameC} /\ FiledUnder(d) # {}
         /\ DOMAIN tree[e] = {NameA, NameC}
         /\ tree[e][NameA] = <<"corrupt">>
         /\ FiledUnder(e) = {}

\* C2: a directory with two or more distinct readable resolutions is filed
\* under 'Mixed Resolutions (' + the formatted resolutions joined by ', ' +
\* ')', each resolution once, in ascending order of the pair (bits, rate),
\* whatever order the files were read in.
C2_MixedKeyAscending ==
    \A d \in Dirs : \A k \in FiledUnder(d) :
        Cardinality(ReadableResolutions(d)) >= 2 =>
            k \in AscendingMixedKeys[ReadableResolutions(d)]

\* C2 witness: a folder whose files were read with the higher resolution
\* first has just been filed under the ascending mixed key.
C2_Witness ==
    /\ pc = "walk"
    /\ root \in Dirs
    /\ folder_resolutions = <<R2, R1>>
    /\ MixedKey12 \in FiledUnder(root)

\* C3: a directory whose readable files all carry one resolution R is filed
\* under format_resolution(R) itself, without the 'Mixed Resolutions' wrapper.
C3_UniformKey ==
    \A d \in Dirs : \A k \in FiledUnder(d) :
        \A r \in ReadableResolutions(d) :
            ReadableResolutions(d) = {r} => k = FormatOf[r]

\* C3 witness: a folder with two files of the same resolution is filed under
\* that resolution's plain string.
C3_Witness ==
    \E d \in Dirs :
        /\ DOMAIN tree[d] = {NameA, NameB, NameC}
        /\ tree[d][NameA] = <<"flac", 16, 96000>>
        /\ tree[d][NameB] = <<"flac", 16, 96000>>
        /\ FiledUnder(d) = {"16-bit / 96 kHz"}

\* While the scan runs: 100 for every directory still to come, plus one for
\* the open folder and one for each of its files still to read.
ScanWork ==
    CASE pc = "scan" -> 100 * (MaxDirs + 1)
      [] pc = "walk" -> 100 * Cardinality(pending)
      [] pc = "read" -> 100 * Cardinality(pending) + 1 + Cardinality(flac_files)
      [] OTHER -> -1

ScanStepShrinksWork ==
    pc \in {"scan", "walk", "read"} => (ScanWork' < ScanWork)

C4_Safe ==
    /\ pc = "read" =>
          Range(folder_resolutions) =
              {<<tree[root][n][2], tree[root][n][3]>> :
                  n \in ReadableFiles(root) \ flac_files}
    /\ ScanReturned =>
          /\ pending = {}
          /\ \A d \in ReadableDirs : FiledUnder(d) # {}

\* C4: an unreadable file is skipped and the scan goes on: the set a folder
\* is classified by is exactly the set of resolutions of its readable
\* qualifying files, every folder with a readable file is filed when the scan
\* returns, and every step of the scan leaves less work, so that the scan
\* ends, by returning its report.
C4_SkipUnreadable ==
    /\ [] C4_Safe
    /\ [][ScanStepShrinksWork]_vars

\* C4 witness: the scan has returned after passing a corrupt file in a folder
\* that was then filed by its readable file, and after passing a folder whose
\* only file is corrupt.
C4_Witness ==
    /\ pc = "print_open"
    /\ \E d, e \in Dirs :
         /\ DOMAIN tree[d] = {NameA, NameB, NameC}
         /\ tree[d][NameA] = <<"corrupt">>
         /\ tree[d][NameB] = <<"flac", 16, 96000>>
         /\ FiledUnder(d) = {"16-bit / 96 kHz"}
         /\ DOMAIN tree[e] = {NameA, NameC}
         /\ tree[e][NameA] = <<"corrupt">>

\* The key of every non-empty set of resolutions, the set taken in ascending
\* order.
KeyOfSet == [S \in (SUBSET Resolutions) \ {{}} |-> Classify(SortBy(S, FALSE))]

ExpectedKey(d) == KeyOfSet[ReadableResolutions(d)]

ExpectedReport ==
    { <<k, {d \in ReadableDirs : ExpectedKey(d) = k}>> :
        k \in {ExpectedKey(d) : d \in ReadableDirs} }

\* C5: the returned report, as a set of (key, set of folders) pairs, is a
\* function of the tree alone: the same for every order of directories and
\* every order of files.
C5_OrderIndependent ==
    ScanReturned =>
        {<<k, Range(library_report[k])>> : k \in DOMAIN library_report}
            = ExpectedReport

\* C5 witness: two mixed folders were visited in descending path order, the
\* last one read with the higher resolution first.
C5_Witness ==
    /\ pc = "print_open"
    /\ MaxDirs >= 2
    /\ folder_resolutions = <<R2, R1>>
    /\ MixedKey12 \in DOMAIN library_report
    /\ library_report[MixedKey12] = <<2, 1>>

\* C6: every key of the report maps to a non-empty list, while the scan
\* builds the report and while print_report reads it.
C6_NoEmptyList ==
    \A k \in DOMAIN library_report : Len(library_report[k]) > 0

\* C6 witness: print_report has gone through a report of two keys.
C6_Witness ==
    /\ pc = "print_close"
    /\ Cardinality(DOMAIN library_report) >= 2

\* C10: after a scan every directory is in at most one list, once, so the
\* list lengths, and the album counts of the summary table, add up to the
\* number of directories with a readable qualifying file.
C10_EachDirOnce ==
    ScanReturned =>
        /\ \A d \in Dirs :
              SumOver([k \in DOMAIN library_report |->
                          Occurrences(d, library_report[k])],
                      DOMAIN library_report) <= 1
        /\ SumOver([k \in DOMAIN library_report |-> Len(library_report[k])],
                   DOMAIN library_report) = Cardinality(ReadableDirs)
        /\ \A i \in 1..Len(console) :
              console[i].text = "albums" =>
                  SumOver([k \in DOMAIN console[i].rows |-> console[i].rows[k][1]],
                          DOMAIN console[i].rows) = Cardinality(ReadableDirs)

\* C10 witness: the summary table was printed for a report in which one key
\* holds two folders.
C10_Witness ==
    /\ pc = "exit"
    /\ \E k \in DOMAIN library_report : Len(library_report[k]) >= 2
    /\ \E i \in 1..Len(console) : console[i].text = "albums"

ExactKhz(rate) ==
    LET whole == ToString(rate \div 1000)
        frac  == rate % 1000
    IN  IF frac = 0 THEN whole
        ELSE IF frac % 100 = 0 THEN whole \o "." \o ToString(frac \div 100)
        ELSE IF frac % 10 = 0
             THEN whole \o "." \o ToString(frac \div 100)
                        \o ToString((frac \div 10) % 10)
        ELSE whole \o "." \o ToString(frac \div 100)
                   \o ToString((frac \div 10) % 10) \o ToString(frac % 10)

\* C7: for all positive bits and rate, format_resolution returns
\* '<bits>-bit / <khz> kHz' with <khz> the exact decimal value of rate/1000,
\* no digit rounded away, no trailing zeros, no exponent.
C7_ExactKhz ==
    pc = "format_done" =>
        fmt_ret = ToString(fmt_args[1]) \o "-bit / "
                    \o ExactKhz(fmt_args[2]) \o " kHz"

\* C8: with a path that is no directory the scan never starts, a message is
\* printed, and the program ends with a non-zero status.
C8_InvalidPathNonZero ==
    (pc = "exit" /\ ~target_is_dir) =>
        /\ InSeq(Line("Invalid directory path provided."), console)
        /\ ~InSeq(Line("Scanning directory: /music ..."), console)
        /\ report_file = << >> /\ f = "None"
        /\ exit_code # 0

\* C9: print_report echoes the path of the report file exactly when the file
\* was opened and written, for an empty report as for any other.
C9_EchoIffWritten ==
    pc = "exit" =>
        ((f = "closed" /\ Len(report_file) > 0) <=> InSeq(EchoLine, console))

====
